---- MODULE Spec2Model ----
(***************************************************************************)
(* LatencyStats (mitmproxy/addons/latency_stats.py): the per-flow timing   *)
(* ledger flow_times, the per-host lists of intercept overheads, the       *)
(* global counters, and the hooks that the proxy pipeline calls on them.   *)
(*                                                                         *)
(* Time is counted in clock ticks (integers); time.time() is the wall      *)
(* clock, so a reading is any tick of Times, not necessarily later than    *)
(* the reading before it.  A quotient of two floats is the exact rational, *)
(* kept in lowest terms as [num, den].                                     *)
(*                                                                         *)
(* Two specifications:                                                     *)
(*   Spec         the class as Python loads it: the pipeline calls the     *)
(*                hooks by name, and the name "request" is bound to the    *)
(*                last definition of the class body (lines 36-50);         *)
(*   SpecHandlers every function body of the class run in the role its     *)
(*                docstring gives it: the body of lines 24-29 records the  *)
(*                arrival, the body of lines 36-50 ends the request        *)
(*                intercept.  It is the only way the ledger is ever        *)
(*                populated, and its behaviours include, on the program's  *)
(*                variables, every behaviour of Spec.                      *)
(***************************************************************************)
EXTENDS Integers, Sequences, FiniteSets, TLC

\* ------------------------------------------------------------------ bounds
MaxTime == 2
MaxSamples == 2
MaxRequests == 2
MaxCalls == 5

Times == 0..MaxTime
Flows == {"f1", "f2"}
Hosts == {"a.example", "b.example"}

\* Python's None, for dict.get on a missing key.
None == -1

VARIABLES
    flow_times,                     \* self.flow_times: id -> (key -> timestamp)
    request_intercept_overhead,     \* self.request_intercept_overhead: host -> list
    response_intercept_overhead,    \* self.response_intercept_overhead: host -> list
    total_requests,                 \* self.total_requests
    total_request_intercept_time,   \* self.total_request_intercept_time
    total_response_intercept_time,  \* self.total_response_intercept_time
    raised,                         \* the exception the last call left with, or "none"
    last,                           \* the last call of the pipeline, with what it found
    pc,                             \* per flow: how far its ordered lifecycle has got
    arrivals,                       \* arrival transitions delivered since start / clear
    inflight,                       \* flows arrived and not yet completed or cleared
    calls,                          \* calls made so far
    emitted                         \* per flow: samples recorded since its last arrival

prog == <<flow_times, request_intercept_overhead, response_intercept_overhead,
          total_requests, total_request_intercept_time,
          total_response_intercept_time>>
aggregates == <<request_intercept_overhead, response_intercept_overhead,
                total_requests, total_request_intercept_time,
                total_response_intercept_time>>
vars == <<flow_times, request_intercept_overhead, response_intercept_overhead,
          total_requests, total_request_intercept_time,
          total_response_intercept_time, raised, last, pc, arrivals, inflight,
          calls, emitted>>

\* ------------------------------------------------------- dicts and numbers
\* d[k] = v on a dict
Put(d, k, v) == [x \in (DOMAIN d) \cup {k} |-> IF x = k THEN v ELSE d[x]]

\* del d[k]
Del(d, k) == [x \in (DOMAIN d) \ {k} |-> d[x]]

\* d.get(k): None when the key is missing
Get(d, k) == IF k \in DOMAIN d THEN d[k] ELSE None

\* d.get(k, [])
GetList(d, k) == IF k \in DOMAIN d THEN d[k] ELSE <<>>

\* bool(x) of a float or None, as `if intercept_start:` takes it
Truthy(x) == x # None /\ x # 0

EmptyDict == [x \in {} |-> 0]

RECURSIVE Sum(_)
Sum(s) == IF s = <<>> THEN 0 ELSE Head(s) + Sum(Tail(s))

RECURSIVE Min(_)
Min(s) == IF Len(s) = 1 THEN s[1]
          ELSE LET m == Min(Tail(s)) IN IF Head(s) < m THEN Head(s) ELSE m

RECURSIVE Max(_)
Max(s) == IF Len(s) = 1 THEN s[1]
          ELSE LET m == Max(Tail(s)) IN IF Head(s) > m THEN Head(s) ELSE m

Abs(x) == IF x < 0 THEN -x ELSE x

RECURSIVE Gcd(_, _)
Gcd(a, b) == IF b = 0 THEN a ELSE Gcd(b, a % b)

\* a / b on floats: the exact quotient in lowest terms; den = 0 marks the
\* ZeroDivisionError that Python raises for b = 0.
Div(a, b) ==
    IF b = 0 THEN [num |-> 0, den |-> 0]
    ELSE LET g == Gcd(Abs(a), b) IN [num |-> a \div g, den |-> b \div g]

\* the literal 0 the conditional expressions of get_stats fall back to
Zero == [num |-> 0, den |-> 1]

\* -------------------------------------------------------------- __init__
InitProg ==
    /\ flow_times = EmptyDict
    /\ request_intercept_overhead = EmptyDict
    /\ response_intercept_overhead = EmptyDict
    /\ total_requests = 0
    /\ total_request_intercept_time = 0
    /\ total_response_intercept_time = 0

\* ------------------------------------------------------------------ hooks
\* the arrival body writing its timestamp into the entry that is there
\* (self.flow_times.setdefault(flow.id, {})["request_arrival"] = ...)
request_arrival_merge(f, now) ==
    /\ flow_times' = Put(flow_times, f,
                         IF f \in DOMAIN flow_times
                         THEN Put(flow_times[f], "request_arrival", now)
                         ELSE [k \in {"request_arrival"} |-> now])
    /\ total_requests' = total_requests + 1
    /\ UNCHANGED <<request_intercept_overhead, response_intercept_overhead,
                   total_request_intercept_time, total_response_intercept_time>>
    /\ raised' = "none"

\* def request (lines 24-29): "Record the time when request arrives at proxy."
request_arrival(f, now) ==
    /\ flow_times' = Put(flow_times, f, [k \in {"request_arrival"} |-> now])
    /\ total_requests' = total_requests + 1
    /\ UNCHANGED <<request_intercept_overhead, response_intercept_overhead,
                   total_request_intercept_time, total_response_intercept_time>>
    /\ raised' = "none"

\* requestheaders without the membership test of line 33: the subscript of a
\* missing id raises KeyError
requestheaders_unguarded(f, now) ==
    /\ IF f \in DOMAIN flow_times
       THEN /\ flow_times' = Put(flow_times, f,
                                 Put(flow_times[f], "request_intercept_start", now))
            /\ raised' = "none"
       ELSE /\ UNCHANGED flow_times
            /\ raised' = "KeyError"
    /\ UNCHANGED aggregates

\* def requestheaders (lines 31-34)
requestheaders(f, now) ==
    /\ IF f \in DOMAIN flow_times
       THEN flow_times' = Put(flow_times, f,
                              Put(flow_times[f], "request_intercept_start", now))
       ELSE UNCHANGED flow_times
    /\ UNCHANGED aggregates
    /\ raised' = "none"

\* request without line 47: the sample is appended, the total is not updated
request_noTotal(f, now, host) ==
    /\ raised' = "none"
    /\ UNCHANGED <<response_intercept_overhead, total_requests,
                   total_response_intercept_time, total_request_intercept_time>>
    /\ IF f \in DOMAIN flow_times
       THEN LET entry == Put(flow_times[f], "request_intercept_end", now)
                intercept_start == Get(entry, "request_intercept_start")
                intercept_time == entry["request_intercept_end"] - intercept_start
            IN /\ flow_times' = Put(flow_times, f, entry)
               /\ IF Truthy(intercept_start)
                  THEN request_intercept_overhead' =
                            Put(request_intercept_overhead, host,
                                Append(GetList(request_intercept_overhead, host),
                                       intercept_time))
                  ELSE UNCHANGED request_intercept_overhead
       ELSE UNCHANGED <<flow_times, request_intercept_overhead>>

\* request with line 42 reading .get("request_intercept_start", 0) and line 43
\* testing `is not None`: a missing start counts as 0
request_defaultStart(f, now, host) ==
    /\ raised' = "none"
    /\ UNCHANGED <<response_intercept_overhead, total_requests,
                   total_response_intercept_time>>
    /\ IF f \in DOMAIN flow_times
       THEN LET entry == Put(flow_times[f], "request_intercept_end", now)
                intercept_start ==
                    IF "request_intercept_start" \in DOMAIN entry
                    THEN entry["request_intercept_start"] ELSE 0
                intercept_time == entry["request_intercept_end"] - intercept_start
            IN /\ flow_times' = Put(flow_times, f, entry)
               /\ request_intercept_overhead' =
                    Put(request_intercept_overhead, host,
                        Append(GetList(request_intercept_overhead, host),
                               intercept_time))
               /\ total_request_intercept_time' =
                    total_request_intercept_time + intercept_time
       ELSE UNCHANGED <<flow_times, request_intercept_overhead,
                        total_request_intercept_time>>

\* def request (lines 36-50): "Record the time when request intercept ends and
\* request is sent to server."
request(f, now, host) ==
    /\ raised' = "none"
    /\ UNCHANGED <<response_intercept_overhead, total_requests,
                   total_response_intercept_time>>
    /\ IF f \in DOMAIN flow_times
       THEN LET entry == Put(flow_times[f], "request_intercept_end", now)
                intercept_start == Get(entry, "request_intercept_start")
                intercept_time == entry["request_intercept_end"] - intercept_start
            IN /\ flow_times' = Put(flow_times, f, entry)
               /\ IF Truthy(intercept_start)
                  THEN /\ request_intercept_overhead' =
                            Put(request_intercept_overhead, host,
                                Append(GetList(request_intercept_overhead, host),
                                       intercept_time))
                       /\ total_request_intercept_time' =
                            total_request_intercept_time + intercept_time
                  ELSE UNCHANGED <<request_intercept_overhead,
                                   total_request_intercept_time>>
       ELSE UNCHANGED <<flow_times, request_intercept_overhead,
                        total_request_intercept_time>>

\* def responseheaders (lines 52-55)
responseheaders(f, now) ==
    /\ IF f \in DOMAIN flow_times
       THEN flow_times' = Put(flow_times, f,
                              Put(flow_times[f], "response_intercept_start", now))
       ELSE UNCHANGED flow_times
    /\ UNCHANGED aggregates
    /\ raised' = "none"

\* response with the del of line 74 indented under `if intercept_start:`
response_delInsideIf(f, now, host) ==
    /\ raised' = "none"
    /\ UNCHANGED <<request_intercept_overhead, total_requests,
                   total_request_intercept_time>>
    /\ IF f \in DOMAIN flow_times
       THEN LET entry == Put(flow_times[f], "response_intercept_end", now)
                intercept_start == Get(entry, "response_intercept_start")
                intercept_time == entry["response_intercept_end"] - intercept_start
            IN IF Truthy(intercept_start)
               THEN /\ response_intercept_overhead' =
                         Put(response_intercept_overhead, host,
                             Append(GetList(response_intercept_overhead, host),
                                    intercept_time))
                    /\ total_response_intercept_time' =
                         total_response_intercept_time + intercept_time
                    /\ flow_times' = Del(Put(flow_times, f, entry), f)
               ELSE /\ UNCHANGED <<response_intercept_overhead,
                                   total_response_intercept_time>>
                    /\ flow_times' = Put(flow_times, f, entry)
       ELSE UNCHANGED <<flow_times, response_intercept_overhead,
                        total_response_intercept_time>>

\* def response (lines 57-74)
response(f, now, host) ==
    /\ raised' = "none"
    /\ UNCHANGED <<request_intercept_overhead, total_requests,
                   total_request_intercept_time>>
    /\ IF f \in DOMAIN flow_times
       THEN LET entry == Put(flow_times[f], "response_intercept_end", now)
                intercept_start == Get(entry, "response_intercept_start")
                intercept_time == entry["response_intercept_end"] - intercept_start
            IN /\ IF Truthy(intercept_start)
                  THEN /\ response_intercept_overhead' =
                            Put(response_intercept_overhead, host,
                                Append(GetList(response_intercept_overhead, host),
                                       intercept_time))
                       /\ total_response_intercept_time' =
                            total_response_intercept_time + intercept_time
                  ELSE UNCHANGED <<response_intercept_overhead,
                                   total_response_intercept_time>>
               /\ flow_times' = Del(Put(flow_times, f, entry), f)
       ELSE UNCHANGED <<flow_times, response_intercept_overhead,
                        total_response_intercept_time>>

\* clear without line 117: the ledger survives
clear_keepsLedger ==
    /\ UNCHANGED flow_times
    /\ request_intercept_overhead' = EmptyDict
    /\ response_intercept_overhead' = EmptyDict
    /\ total_requests' = 0
    /\ total_request_intercept_time' = 0
    /\ total_response_intercept_time' = 0
    /\ raised' = "none"

\* clear without line 120: the counter of requests survives
clear_keepsCounter ==
    /\ flow_times' = EmptyDict
    /\ request_intercept_overhead' = EmptyDict
    /\ response_intercept_overhead' = EmptyDict
    /\ UNCHANGED total_requests
    /\ total_request_intercept_time' = 0
    /\ total_response_intercept_time' = 0
    /\ raised' = "none"

\* def clear (lines 115-122)
clear ==
    /\ flow_times' = EmptyDict
    /\ request_intercept_overhead' = EmptyDict
    /\ response_intercept_overhead' = EmptyDict
    /\ total_requests' = 0
    /\ total_request_intercept_time' = 0
    /\ total_response_intercept_time' = 0
    /\ raised' = "none"

\* The class body binds the name "request" twice (line 24, line 36); the
\* attribute the pipeline finds is the last binding.
LatencyStats_request(f, now, host) == request(f, now, host)

\* ---------------------------------------------------------------- get_stats
\* the quotient of lines 82, 86 without its `if self.total_requests > 0`
average_time_unguarded(total, n) == Div(total, n)

\* lines 82, 86: total / self.total_requests if self.total_requests > 0 else 0
average_time(total, n) == IF n > 0 THEN Div(total, n) ELSE Zero

\* line 93 without the union: the keys of the request map alone
all_hosts_requestOnly == DOMAIN request_intercept_overhead

\* line 93: the hosts that have a key in either map
all_hosts == (DOMAIN request_intercept_overhead) \cup
             (DOMAIN response_intercept_overhead)

\* lines 101-105, 106-110: the statistics of one phase of one host
phase_stats(overheads) ==
    [average_overhead |-> IF overheads # <<>>
                          THEN Div(Sum(overheads), Len(overheads)) ELSE Zero,
     min_overhead |-> IF overheads # <<>> THEN Min(overheads) ELSE 0,
     max_overhead |-> IF overheads # <<>> THEN Max(overheads) ELSE 0]

\* lines 99-111: the record of one host
host_record(request_overheads, response_overheads) ==
    [requests |-> Len(request_overheads),
     request_intercept |-> phase_stats(request_overheads),
     response_intercept |-> phase_stats(response_overheads)]

\* lines 93-111: host_stats
host_stats ==
    LET shown == {h \in all_hosts :
                    \/ GetList(request_intercept_overhead, h) # <<>>
                    \/ GetList(response_intercept_overhead, h) # <<>>}
    IN [h \in shown |-> host_record(GetList(request_intercept_overhead, h),
                                    GetList(response_intercept_overhead, h))]

\* def get_stats (lines 76-113): the dict it returns in the current state
get_stats ==
    [total_requests |-> total_requests,
     request_intercept |->
        [total_time |-> total_request_intercept_time,
         average_time |-> average_time(total_request_intercept_time,
                                       total_requests)],
     response_intercept |->
        [total_time |-> total_response_intercept_time,
         average_time |-> average_time(total_response_intercept_time,
                                       total_requests)],
     total_intercept_time |-> total_request_intercept_time
                              + total_response_intercept_time,
     host_stats |-> host_stats]

\* lines 95-96 with self.request_intercept_overhead[host] in place of
\* .get(host, []): the subscript of a defaultdict inserts the missing key
get_stats_lookups_subscript ==
    /\ request_intercept_overhead' =
         [h \in all_hosts |-> GetList(request_intercept_overhead, h)]
    /\ response_intercept_overhead' =
         [h \in all_hosts |-> GetList(response_intercept_overhead, h)]

\* lines 93-96: what reading the two maps does to them; keys() and
\* .get(host, []) insert nothing
get_stats_lookups ==
    UNCHANGED <<request_intercept_overhead, response_intercept_overhead>>

\* the exception get_stats leaves with: a division by zero among its quotients
get_stats_raises ==
    IF \/ get_stats.request_intercept.average_time.den = 0
       \/ get_stats.response_intercept.average_time.den = 0
       \/ \E h \in DOMAIN get_stats.host_stats :
            \/ get_stats.host_stats[h].request_intercept.average_overhead.den = 0
            \/ get_stats.host_stats[h].response_intercept.average_overhead.den = 0
    THEN "ZeroDivisionError" ELSE "none"

\* ------------------------------------------------------------ the pipeline
\* The pipeline is outside the class: it may call any hook for any flow at
\* any time.  What follows records what it has called.
NumSamples ==
    LET RECURSIVE Count(_, _)
        Count(d, hs) == IF hs = {} THEN 0
                        ELSE LET h == CHOOSE x \in hs : TRUE
                             IN Len(d[h]) + Count(d, hs \ {h})
    IN Count(request_intercept_overhead, DOMAIN request_intercept_overhead)
       + Count(response_intercept_overhead, DOMAIN response_intercept_overhead)

HasEntry(f) == f \in DOMAIN flow_times
HasKey(f, k) == HasEntry(f) /\ k \in DOMAIN flow_times[f]

\* a phase end that will append a sample needs room for it
Room(f, k) == (HasKey(f, k) /\ Truthy(flow_times[f][k])) => NumSamples < MaxSamples

Budget == calls < MaxCalls

Called(op, f, host, k) ==
    /\ last' = [op |-> op, id |-> f, host |-> host,
                entry |-> HasEntry(f), start |-> HasKey(f, k),
                samples |-> NumSamples]
    /\ calls' = calls + 1

\* a flow whose calls leave the documented order is "off"; one that was in
\* flight when clear ran stays "cleared" until it arrives again
Step(f, from, to) ==
    pc' = [pc EXCEPT ![f] = IF pc[f] = from THEN to
                            ELSE IF pc[f] = "cleared" THEN "cleared" ELSE "off"]

\* the samples in all lists of a map
RECURSIVE CountIn(_, _)
CountIn(d, hs) == IF hs = {} THEN 0
                  ELSE LET h == CHOOSE x \in hs : TRUE
                       IN Len(d[h]) + CountIn(d, hs \ {h})
Samples(d) == CountIn(d, DOMAIN d)

\* what the call for flow f has added to the lists is counted for f
Emitted(f) ==
    emitted' = [emitted EXCEPT ![f] =
        [request |-> @.request + Samples(request_intercept_overhead')
                               - Samples(request_intercept_overhead),
         response |-> @.response + Samples(response_intercept_overhead')
                                 - Samples(response_intercept_overhead)]]

NoneEmitted == [request |-> 0, response |-> 0]

Init ==
    /\ InitProg
    /\ raised = "none"
    /\ last = [op |-> "init", id |-> "-", host |-> "-", entry |-> FALSE,
               start |-> FALSE, samples |-> 0]
    /\ pc = [f \in Flows |-> "off"]
    /\ arrivals = 0
    /\ inflight = {}
    /\ calls = 0
    /\ emitted = [f \in Flows |-> NoneEmitted]

ArrivalGhost(f) ==
    /\ arrivals < MaxRequests
    /\ Budget
    /\ Called("arrival", f, "-", "request_intercept_start")
    /\ pc' = [pc EXCEPT ![f] = "arrived"]
    /\ emitted' = [emitted EXCEPT ![f] = NoneEmitted]
    /\ arrivals' = arrivals + 1
    /\ inflight' = inflight \cup {f}

\* the arrival of a flow, as the loaded class takes it: the hook "request"
OnArrival(f) ==
    /\ ArrivalGhost(f)
    /\ \E now \in Times, host \in Hosts : LatencyStats_request(f, now, host)

\* the arrival of a flow, taken by the body written for it
ArrivalBody(f) ==
    /\ ArrivalGhost(f)
    /\ \E now \in Times : request_arrival(f, now)

OnRequestHeaders(f) ==
    /\ Budget
    /\ Called("requestheaders", f, "-", "request_intercept_start")
    /\ Step(f, "arrived", "req_started")
    /\ UNCHANGED <<arrivals, inflight, emitted>>
    /\ \E now \in Times : requestheaders(f, now)

OnRequest(f) ==
    /\ Budget
    /\ Room(f, "request_intercept_start")
    /\ Step(f, "req_started", "req_ended")
    /\ UNCHANGED <<arrivals, inflight>>
    /\ \E now \in Times, host \in Hosts :
         /\ Called("request", f, host, "request_intercept_start")
         /\ LatencyStats_request(f, now, host)
    /\ Emitted(f)

OnResponseHeaders(f) ==
    /\ Budget
    /\ Called("responseheaders", f, "-", "response_intercept_start")
    /\ Step(f, "req_ended", "resp_started")
    /\ UNCHANGED <<arrivals, inflight, emitted>>
    /\ \E now \in Times : responseheaders(f, now)

OnResponse(f) ==
    /\ Budget
    /\ Room(f, "response_intercept_start")
    /\ Step(f, "resp_started", "done")
    /\ arrivals' = arrivals
    /\ inflight' = inflight \ {f}
    /\ \E now \in Times, host \in Hosts :
         /\ Called("response", f, host, "response_intercept_start")
         /\ response(f, now, host)
    /\ Emitted(f)

GetStatsCall ==
    /\ Called("get_stats", "-", "-", "-")
    /\ raised' = get_stats_raises
    /\ get_stats_lookups
    /\ UNCHANGED <<flow_times, total_requests, total_request_intercept_time,
                   total_response_intercept_time>>
    /\ UNCHANGED <<pc, arrivals, inflight, emitted>>

GetStats == Budget /\ GetStatsCall

Clear ==
    /\ Budget
    /\ Called("clear", "-", "-", "-")
    /\ clear
    /\ pc' = [f \in Flows |-> IF f \in inflight THEN "cleared" ELSE "off"]
    /\ arrivals' = 0
    /\ inflight' = {}
    /\ emitted' = [f \in Flows |-> NoneEmitted]

Next ==
    \/ \E f \in Flows : OnArrival(f)
    \/ \E f \in Flows : OnRequestHeaders(f)
    \/ \E f \in Flows : OnRequest(f)
    \/ \E f \in Flows : OnResponseHeaders(f)
    \/ \E f \in Flows : OnResponse(f)
    \/ GetStats
    \/ Clear

Spec == Init /\ [][Next]_vars

NextHandlers ==
    \/ \E f \in Flows : ArrivalBody(f)
    \/ \E f \in Flows : OnRequestHeaders(f)
    \/ \E f \in Flows : OnRequest(f)
    \/ \E f \in Flows : OnResponseHeaders(f)
    \/ \E f \in Flows : OnResponse(f)
    \/ GetStats
    \/ Clear

SpecHandlers == Init /\ [][NextHandlers]_vars

\* ------------------------------------------------------ timed scenarios
\* Exchanges whose calls come in the documented order, each at the clock
\* reading its timetable gives (milliseconds), all to one host.  The hooks
\* are plain functions called one at a time, so the exchanges interleave
\* call by call.
MaxTimedCalls == 12

ScenarioHost == "example.com"

\* E1 of the concrete scenario, and a second exchange beside it
TimetableE1 ==
    [f1 |-> [request_arrival |-> 0, request_intercept_start |-> 10,
             request_intercept_end |-> 35, response_intercept_start |-> 200,
             response_intercept_end |-> 215],
     f2 |-> [request_arrival |-> 5, request_intercept_start |-> 20,
             request_intercept_end |-> 30, response_intercept_start |-> 100,
             response_intercept_end |-> 130]]

\* two overlapping exchanges with request-intercept durations 10 and 30
TimetablePair ==
    [f1 |-> [request_arrival |-> 0, request_intercept_start |-> 10,
             request_intercept_end |-> 20, response_intercept_start |-> 50,
             response_intercept_end |-> 60],
     f2 |-> [request_arrival |-> 5, request_intercept_start |-> 15,
             request_intercept_end |-> 45, response_intercept_start |-> 70,
             response_intercept_end |-> 80]]

TimedArrivalGhost(f) ==
    /\ pc[f] = "off"
    /\ Called("arrival", f, "-", "request_intercept_start")
    /\ pc' = [pc EXCEPT ![f] = "arrived"]
    /\ emitted' = [emitted EXCEPT ![f] = NoneEmitted]
    /\ arrivals' = arrivals + 1
    /\ inflight' = inflight \cup {f}

\* the arrival, as the loaded class takes it: the hook "request"
TimedArrival(T, f) ==
    /\ TimedArrivalGhost(f)
    /\ LatencyStats_request(f, T[f].request_arrival, ScenarioHost)

\* the arrival, taken by the body written for it
TimedArrivalBody(T, f) ==
    /\ TimedArrivalGhost(f)
    /\ request_arrival(f, T[f].request_arrival)

TimedRequestHeaders(T, f) ==
    /\ pc[f] = "arrived"
    /\ Called("requestheaders", f, "-", "request_intercept_start")
    /\ Step(f, "arrived", "req_started")
    /\ UNCHANGED <<arrivals, inflight, emitted>>
    /\ requestheaders(f, T[f].request_intercept_start)

TimedRequest(T, f) ==
    /\ pc[f] = "req_started"
    /\ Called("request", f, ScenarioHost, "request_intercept_start")
    /\ Step(f, "req_started", "req_ended")
    /\ UNCHANGED <<arrivals, inflight>>
    /\ LatencyStats_request(f, T[f].request_intercept_end, ScenarioHost)
    /\ Emitted(f)

TimedResponseHeaders(T, f) ==
    /\ pc[f] = "req_ended"
    /\ Called("responseheaders", f, "-", "response_intercept_start")
    /\ Step(f, "req_ended", "resp_started")
    /\ UNCHANGED <<arrivals, inflight, emitted>>
    /\ responseheaders(f, T[f].response_intercept_start)

TimedResponse(T, f) ==
    /\ pc[f] = "resp_started"
    /\ Called("response", f, ScenarioHost, "response_intercept_start")
    /\ Step(f, "resp_started", "done")
    /\ arrivals' = arrivals
    /\ inflight' = inflight \ {f}
    /\ response(f, T[f].response_intercept_end, ScenarioHost)
    /\ Emitted(f)

TimedGetStats == calls < MaxTimedCalls /\ GetStatsCall

NextTimed(T) ==
    \/ \E f \in Flows : TimedArrival(T, f)
    \/ \E f \in Flows : TimedRequestHeaders(T, f)
    \/ \E f \in Flows : TimedRequest(T, f)
    \/ \E f \in Flows : TimedResponseHeaders(T, f)
    \/ \E f \in Flows : TimedResponse(T, f)
    \/ TimedGetStats

NextTimedHandlers(T) ==
    \/ \E f \in Flows : TimedArrivalBody(T, f)
    \/ \E f \in Flows : TimedRequestHeaders(T, f)
    \/ \E f \in Flows : TimedRequest(T, f)
    \/ \E f \in Flows : TimedResponseHeaders(T, f)
    \/ \E f \in Flows : TimedResponse(T, f)
    \/ TimedGetStats

SpecE1 == Init /\ [][NextTimed(TimetableE1)]_vars
SpecE1Handlers == Init /\ [][NextTimedHandlers(TimetableE1)]_vars
SpecPair == Init /\ [][NextTimed(TimetablePair)]_vars
SpecPairHandlers == Init /\ [][NextTimedHandlers(TimetablePair)]_vars

\* ================================================================== claims
ReqCount(d, h) == Len(GetList(d, h))
PhaseEnds == {"request", "response"}
PhaseCalls == {"requestheaders", "request", "responseheaders", "response"}

\* C1: the request-intercept end of a flow whose calls came in the documented
\* order adds exactly one request-intercept sample for its host, and its
\* completion adds exactly one response-intercept sample for its host and
\* leaves no ledger entry for the flow.
C1_OrderedLifecycleAddsOneSampleEach ==
    [][\A f \in Flows :
         /\ (pc[f] = "req_started" /\ pc'[f] = "req_ended") =>
               ReqCount(request_intercept_overhead', last'.host)
                 = ReqCount(request_intercept_overhead, last'.host) + 1
         /\ (pc[f] = "resp_started" /\ pc'[f] = "done") =>
               /\ ReqCount(response_intercept_overhead', last'.host)
                    = ReqCount(response_intercept_overhead, last'.host) + 1
               /\ f \notin DOMAIN flow_times']_vars

\* C2: an arrival leaves a ledger entry for its flow, and total_requests is
\* the number of arrivals delivered since construction or the last clear.
C2_ArrivalCountsAndCreatesEntry ==
    /\ total_requests = arrivals
    /\ last.op = "arrival" => last.id \in DOMAIN flow_times

\* C3: a phase end that finds no start timestamp for its phase changes no
\* aggregate (per-host samples of both phases, the three global counters)
\* and raises nothing.
C3_EndWithoutStartChangesNoAggregate ==
    [][(last'.op \in PhaseEnds /\ ~last'.start) =>
          (UNCHANGED aggregates /\ raised' = "none")]_vars

C3_Witness ==
    /\ last.op = "request"
    /\ last.entry
    /\ ~last.start
    /\ total_requests > 0

\* C4: a phase start or phase end for a flow without a ledger entry changes
\* nothing (ledger, counters, per-host samples) and raises nothing.
C4_NoEntryIsSilentNoOp ==
    [][(last'.op \in PhaseCalls /\ ~last'.entry) =>
          (UNCHANGED prog /\ raised' = "none")]_vars

C4_Witness ==
    /\ last.op = "requestheaders"
    /\ ~last.entry
    /\ flow_times # EmptyDict

\* C5: right after clear, get_stats returns total_requests 0, both totals 0,
\* both averages 0 and an empty host_stats, whatever came before.
C5_ClearThenStatsAllZero ==
    last.op = "clear" =>
        /\ get_stats_raises = "none"
        /\ get_stats.total_requests = 0
        /\ get_stats.request_intercept = [total_time |-> 0, average_time |-> Zero]
        /\ get_stats.response_intercept = [total_time |-> 0, average_time |-> Zero]
        /\ DOMAIN get_stats.host_stats = {}

C5_Witness ==
    /\ last.op = "clear"
    /\ last.samples > 0

\* C6: in every state get_stats raises nothing, and each global average is
\* the phase total over total_requests when that is positive, 0 otherwise.
C6_GlobalAverage ==
    LET IsQuotient(q, total, n) == q.den > 0 /\ q.num * n = total * q.den
    IN /\ get_stats_raises = "none"
       /\ IF total_requests > 0
          THEN /\ IsQuotient(get_stats.request_intercept.average_time,
                             total_request_intercept_time, total_requests)
               /\ IsQuotient(get_stats.response_intercept.average_time,
                             total_response_intercept_time, total_requests)
          ELSE /\ get_stats.request_intercept.average_time = Zero
               /\ get_stats.response_intercept.average_time = Zero

C6_Witness ==
    /\ total_requests = 2
    /\ total_request_intercept_time = 1

\* the extrema and the mean of a phase's record are those of its samples
MatchesSamples(rec, samples) ==
    samples # <<>> =>
        /\ \E i \in 1..Len(samples) : samples[i] = rec.min_overhead
        /\ \A i \in 1..Len(samples) : rec.min_overhead <= samples[i]
        /\ \E i \in 1..Len(samples) : samples[i] = rec.max_overhead
        /\ \A i \in 1..Len(samples) : rec.max_overhead >= samples[i]
        /\ rec.average_overhead.den > 0
        /\ rec.average_overhead.num * Len(samples)
             = Sum(samples) * rec.average_overhead.den

\* the min, max and average part of C7, for both phases
MinMaxAverageMatchSamples ==
    \A h \in DOMAIN get_stats.host_stats :
        /\ MatchesSamples(get_stats.host_stats[h].request_intercept,
                          GetList(request_intercept_overhead, h))
        /\ MatchesSamples(get_stats.host_stats[h].response_intercept,
                          GetList(response_intercept_overhead, h))

\* C7: for each host and each phase, get_stats reports the minimum, the
\* maximum, the number and the mean of the durations recorded for that host
\* and phase since the last clear.  The one count a host's record carries
\* is "requests".
C7_MinMaxCountAverage ==
    /\ MinMaxAverageMatchSamples
    /\ \A h \in DOMAIN get_stats.host_stats :
         /\ get_stats.host_stats[h].requests
              = Len(GetList(request_intercept_overhead, h))
         /\ get_stats.host_stats[h].requests
              = Len(GetList(response_intercept_overhead, h))

\* C8: a flow has a ledger entry exactly while it has arrived and has not
\* completed (and no clear came in between).
C8_EntryIffInFlight == DOMAIN flow_times = inflight

\* C9: after response returns, its flow has no ledger entry, whether or not
\* a response-intercept start was recorded.
C9_ResponseRemovesEntry ==
    last.op = "response" => last.id \notin DOMAIN flow_times

C9_Witness ==
    /\ last.op = "response"
    /\ last.entry
    /\ ~last.start

\* C10: host_stats has a record for exactly the hosts with a sample in
\* either phase, and a phase without samples reports average, min, max 0.
C10_HostStatsKeysAndZeros ==
    LET NoSamples == [average_overhead |-> Zero, min_overhead |-> 0,
                      max_overhead |-> 0]
    IN /\ DOMAIN get_stats.host_stats =
            {h \in Hosts : \/ GetList(request_intercept_overhead, h) # <<>>
                           \/ GetList(response_intercept_overhead, h) # <<>>}
       /\ \A h \in DOMAIN get_stats.host_stats :
            /\ GetList(request_intercept_overhead, h) = <<>> =>
                 get_stats.host_stats[h].request_intercept = NoSamples
            /\ GetList(response_intercept_overhead, h) = <<>> =>
                 get_stats.host_stats[h].response_intercept = NoSamples

C10_Witness ==
    \E h \in DOMAIN get_stats.host_stats :
        /\ GetList(request_intercept_overhead, h) = <<>>
        /\ GetList(response_intercept_overhead, h) # <<>>

\* C11: from a fresh engine, E1 alone (arrival 0, request intercept 10 to 35,
\* response intercept 200 to 215, host example.com) gives total_requests 1,
\* totals 25 and 15, one sample in each phase of example.com with average,
\* min and max equal to it, and an empty ledger.
C11_SingleExchangeE1 ==
    (pc["f1"] = "done" /\ pc["f2"] = "off") =>
        /\ get_stats.total_requests = 1
        /\ get_stats.request_intercept.total_time = 25
        /\ get_stats.response_intercept.total_time = 15
        /\ DOMAIN get_stats.host_stats = {ScenarioHost}
        /\ Len(GetList(request_intercept_overhead, ScenarioHost)) = 1
        /\ Len(GetList(response_intercept_overhead, ScenarioHost)) = 1
        /\ get_stats.host_stats[ScenarioHost].request_intercept =
             [average_overhead |-> [num |-> 25, den |-> 1],
              min_overhead |-> 25, max_overhead |-> 25]
        /\ get_stats.host_stats[ScenarioHost].response_intercept =
             [average_overhead |-> [num |-> 15, den |-> 1],
              min_overhead |-> 15, max_overhead |-> 15]
        /\ flow_times = EmptyDict

\* C12: once two overlapping exchanges to one host have both ended their
\* request intercept (durations 10 and 30), in whatever order their calls
\* came, the host's request-intercept count is 2, min 10, max 30, average
\* 20, and the global request-intercept total is 40.
C12_TwoConcurrentExchanges ==
    LET Ended == {"req_ended", "resp_started", "done"}
    IN (pc["f1"] \in Ended /\ pc["f2"] \in Ended) =>
        /\ ScenarioHost \in DOMAIN get_stats.host_stats
        /\ get_stats.host_stats[ScenarioHost].requests = 2
        /\ get_stats.host_stats[ScenarioHost].request_intercept =
             [average_overhead |-> [num |-> 20, den |-> 1],
              min_overhead |-> 10, max_overhead |-> 30]
        /\ get_stats.request_intercept.total_time = 40

\* the value a call has appended to the list of host h in map d, given the
\* map d2 after the call; Appended says that it has appended one
Appended(d, d2, h) == Len(GetList(d2, h)) = Len(GetList(d, h)) + 1
NewSample(d2, h) == GetList(d2, h)[Len(GetList(d2, h))]

\* C13: a phase end never appends a negative duration to a per-host list
\* and never lowers a global phase total.
C13_NegativeDurationDiscarded ==
    [][last'.op \in PhaseEnds =>
         /\ \A h \in Hosts :
              /\ Appended(request_intercept_overhead,
                          request_intercept_overhead', h) =>
                    NewSample(request_intercept_overhead', h) >= 0
              /\ Appended(response_intercept_overhead,
                          response_intercept_overhead', h) =>
                    NewSample(response_intercept_overhead', h) >= 0
         /\ total_request_intercept_time' >= total_request_intercept_time
         /\ total_response_intercept_time' >= total_response_intercept_time]_vars

\* C14: no call other than clear lowers total_requests, a global phase
\* total, or the number or the sum of a host's samples in either phase.
C14_AggregatesNeverDecrease ==
    [][last'.op # "clear" =>
         /\ total_requests' >= total_requests
         /\ total_request_intercept_time' >= total_request_intercept_time
         /\ total_response_intercept_time' >= total_response_intercept_time
         /\ \A h \in Hosts :
              /\ Len(GetList(request_intercept_overhead', h))
                   >= Len(GetList(request_intercept_overhead, h))
              /\ Sum(GetList(request_intercept_overhead', h))
                   >= Sum(GetList(request_intercept_overhead, h))
              /\ Len(GetList(response_intercept_overhead', h))
                   >= Len(GetList(response_intercept_overhead, h))
              /\ Sum(GetList(response_intercept_overhead', h))
                   >= Sum(GetList(response_intercept_overhead, h))]_vars

\* C15: since its last arrival a flow has had at most one request-intercept
\* sample and at most one response-intercept sample recorded, however often
\* its phase ends were delivered.
C15_AtMostOneSamplePerPhase ==
    \A f \in Flows : emitted[f].request <= 1 /\ emitted[f].response <= 1

\* C16: after an arrival for a flow that already had an entry, the entry
\* holds the new arrival timestamp and nothing else; a phase end that
\* follows the arrival directly records nothing.
C16_ArrivalReplacesEntry ==
    [][/\ (last'.op = "arrival" /\ last'.entry) =>
            /\ last'.id \in DOMAIN flow_times'
            /\ DOMAIN flow_times'[last'.id] = {"request_arrival"}
       /\ (last.op = "arrival" /\ last'.op \in PhaseEnds /\ last'.id = last.id)
            => UNCHANGED aggregates]_vars

C16_Witness ==
    /\ last.op = "arrival"
    /\ last.entry
    /\ last.start

\* C17: a phase end that finds an entry with the phase's start timestamp
\* appends one sample, end minus start, for the host, whatever the start
\* timestamp is (0 included), and adds it to the phase total.
C17_EndWithStartEmitsInterval ==
    [][/\ (last'.op = "request" /\ last'.start) =>
            /\ Appended(request_intercept_overhead,
                        request_intercept_overhead', last'.host)
            /\ NewSample(request_intercept_overhead', last'.host)
                 = flow_times'[last'.id]["request_intercept_end"]
                   - flow_times[last'.id]["request_intercept_start"]
            /\ total_request_intercept_time' = total_request_intercept_time
                 + NewSample(request_intercept_overhead', last'.host)
       /\ (last'.op = "response" /\ last'.start) =>
            /\ Appended(response_intercept_overhead,
                        response_intercept_overhead', last'.host)
            /\ NewSample(response_intercept_overhead', last'.host)
                 + flow_times[last'.id]["response_intercept_start"] \in Times
            /\ total_response_intercept_time' = total_response_intercept_time
                 + NewSample(response_intercept_overhead', last'.host)]_vars

\* the sum of all samples of a map
RECURSIVE SumIn(_, _)
SumIn(d, hs) == IF hs = {} THEN 0
                ELSE LET h == CHOOSE x \in hs : TRUE
                     IN Sum(d[h]) + SumIn(d, hs \ {h})

\* C18: each global phase total is the sum of that phase's samples over
\* all hosts.
C18_TotalsAreSumsOfSamples ==
    /\ total_request_intercept_time
         = SumIn(request_intercept_overhead, DOMAIN request_intercept_overhead)
    /\ total_response_intercept_time
         = SumIn(response_intercept_overhead, DOMAIN response_intercept_overhead)

C18_Witness ==
    /\ Cardinality(DOMAIN request_intercept_overhead) = 2
    /\ total_request_intercept_time > 0

\* C19: get_stats changes nothing (ledger, counters, both maps and their
\* keys), so the next get_stats returns the same.
C19_GetStatsIsPureRead ==
    [][last'.op = "get_stats" =>
         (UNCHANGED prog /\ get_stats' = get_stats)]_vars

C19_Witness ==
    /\ last.op = "get_stats"
    /\ DOMAIN request_intercept_overhead # DOMAIN response_intercept_overhead

ZeroStats ==
    [total_requests |-> 0,
     request_intercept |-> [total_time |-> 0, average_time |-> Zero],
     response_intercept |-> [total_time |-> 0, average_time |-> Zero],
     total_intercept_time |-> 0,
     host_stats |-> EmptyDict]

\* C20: a phase start or phase end of a flow that was in flight when clear
\* ran, and has not arrived again, changes nothing; from clear until the
\* next arrival the ledger is empty and get_stats is all zero.
C20_ClearedFlowRecordsNothing ==
    [][/\ \A f \in Flows :
            (pc[f] = "cleared" /\ last'.op \in PhaseCalls /\ last'.id = f)
              => UNCHANGED prog
       /\ arrivals' = 0 => (flow_times' = EmptyDict /\ get_stats' = ZeroStats)]_vars

C20_Witness ==
    /\ last.op = "response"
    /\ pc[last.id] = "cleared"
    /\ calls >= 4

====
